---------------------------- MODULE Spec2Model ----------------------------
(***************************************************************************)
(* GoodFoods reservation assistant: the orchestration loop of agent.py     *)
(* (sanitize -> plan -> first completion -> tool dispatch -> second        *)
(* completion) and the booking tools of tools.py over the sqlite store.    *)
(***************************************************************************)
EXTENDS Integers, Sequences, FiniteSets, TLC

VARIABLES
    restaurants,    \* table restaurants: id -> capacity
    bookings,       \* table bookings: sequence of rows, in insertion order
    last,           \* direct tool calls: the last completed book_table call
    bpc,            \* concurrent callers: position of each in book_table
    bargs,          \* concurrent callers: arguments of each call
    bsnap,          \* concurrent callers: the snapshot each read
    bout,           \* concurrent callers: what each call returned
    transcript,     \* the caller's message list, as passed to run_agent
    messages,       \* run_agent's local list after _sanitize_history
    resanitized,    \* _sanitize_history applied to its own output
    pc,             \* run_agent: the state of the orchestration loop
    plan,           \* run_agent: the Plan returned by _generate_plan
    orchestrator_messages,  \* run_agent: the list sent to the completions
    assistant_text, \* run_agent: the text of the first completion
    tool_call,      \* run_agent: what detect_tool_call returned
    tool_output,    \* run_agent: what execute_tool returned
    result,         \* run_agent: the value returned to the caller
    sent,           \* the message lists passed to hf_chat, in call order
    replies,        \* what hf_chat did on each of these calls, in call order
    executed        \* the calls of execute_tool, in call order

storeVars == <<restaurants, bookings>>
callVars == <<last, bpc, bargs, bsnap, bout>>
sanVars == <<transcript, messages, resanitized>>
agentVars == <<pc, plan, orchestrator_messages, assistant_text, tool_call,
               tool_output, result, sent, replies, executed>>
vars == <<storeVars, callVars, sanVars, agentVars>>

-----------------------------------------------------------------------------
(* Bounds of the model *)

MaxBookings == 3    \* rows the bookings table may hold
MaxParty == 2       \* largest party_size a caller asks for
MaxTranscript == 3  \* messages in a transcript handed to the sanitizer
MaxText == 4        \* tokens in a text handed to the parser

-----------------------------------------------------------------------------
(* Values *)

Max(a, b) == IF a >= b THEN a ELSE b

\* The id synthetic_restaurant_info hands out and book_table special-cases.
SENTINEL_ID == 999999

\* Ids no row of restaurants has.
UnknownIds == {7}

\* restaurants as seeded (capacities scaled down from randint(20, 200)).
SeedRestaurants == (1 :> 2)

RestaurantIdArgs == DOMAIN SeedRestaurants \cup UnknownIds \cup {SENTINEL_ID}

\* A time string.  An ISO string "2024-05-01Thh:mm[:ss][+off]" is kept by its
\* fields, so that parsing and formatting act on it; any other text is raw.
Iso(hhmm, sec, off) == [fmt |-> "iso", hhmm |-> hhmm, sec |-> sec, off |-> off, text |-> ""]
Raw(text) == [fmt |-> "raw", hhmm |-> 0, sec |-> "", off |-> "", text |-> text]

TimeArgs ==
    { Iso(1930, "", ""), Iso(1930, ":00", ""), Raw("8pm") }

\* A JSON number or a JSON string given as party_size.
Num(n) == [t |-> "num", v |-> n]
Str(s) == [t |-> "str", v |-> 0, s |-> s]

PartyArgs == { Num(n) : n \in -1 .. MaxParty } \cup { Str(<<"four">>) }

CustomerNames == { "Asha" }

BookArgs ==
    [restaurant_id : RestaurantIdArgs, customer_name : CustomerNames,
     time : TimeArgs, party_size : PartyArgs]

-----------------------------------------------------------------------------
(* tools.py: the availability engine *)

\* Mutant: the time string is used as given.
NormalizeTime_Unchanged(time) == time

\* datetime.fromisoformat(time).isoformat(timespec="minutes"), or the string
\* unchanged when fromisoformat raises.
NormalizeTime(time) ==
    IF time.fmt = "iso" THEN [time EXCEPT !.sec = ""] ELSE time

\* Mutant: the bookings of the restaurant are summed over all times.
RECURSIVE SumPartySize_AnyTime(_, _, _)
SumPartySize_AnyTime(rows, restaurant_id, time_iso) ==
    IF rows = <<>> THEN 0
    ELSE LET r == Head(rows)
             rest == SumPartySize_AnyTime(Tail(rows), restaurant_id, time_iso)
         IN IF r.restaurant_id = restaurant_id THEN r.party_size + rest ELSE rest

\* Mutant: times are matched by hour and minute, whatever the offset.
RECURSIVE SumPartySize_IgnoresOffset(_, _, _)
SumPartySize_IgnoresOffset(rows, restaurant_id, time_iso) ==
    IF rows = <<>> THEN 0
    ELSE LET r == Head(rows)
             rest == SumPartySize_IgnoresOffset(Tail(rows), restaurant_id, time_iso)
         IN IF /\ r.restaurant_id = restaurant_id
               /\ r.time.fmt = time_iso.fmt /\ r.time.hhmm = time_iso.hhmm
               /\ r.time.text = time_iso.text
            THEN r.party_size + rest ELSE rest

\* SELECT SUM(party_size) FROM bookings WHERE restaurant_id=? AND time=?
RECURSIVE SumPartySize(_, _, _)
SumPartySize(rows, restaurant_id, time_iso) ==
    IF rows = <<>> THEN 0
    ELSE LET r == Head(rows)
             rest == SumPartySize(Tail(rows), restaurant_id, time_iso)
         IN IF r.restaurant_id = restaurant_id /\ r.time = time_iso
            THEN r.party_size + rest ELSE rest

_availability_snapshot(rests, rows, restaurant_id, time_iso) ==
    IF restaurant_id \notin DOMAIN rests
    THEN [available_seats |-> 0]
    ELSE LET capacity == rests[restaurant_id]
             used == SumPartySize(rows, restaurant_id, time_iso)
         IN [available_seats |-> Max(capacity - used, 0),
             capacity |-> capacity,
             booked |-> used]

\* INSERT INTO bookings (restaurant_id, customer_name, time, party_size)
InsertBooking(rows, restaurant_id, customer_name, time, party_size) ==
    Append(rows, [restaurant_id |-> restaurant_id, customer_name |-> customer_name,
                  time |-> time, party_size |-> party_size])

\* What a call of book_table gives back: a returned payload or a raised error.
Returned(payload) == [raised |-> FALSE, payload |-> payload]
Raised(error) == [raised |-> TRUE, payload |-> [error |-> error]]

DummyConfirmed(a, time) ==
    [success |-> TRUE, message |-> "Booking confirmed at dummy restaurant",
     restaurant_id |-> a.restaurant_id, time |-> time, party_size |-> a.party_size]

NotEnoughSeats(snap) ==
    [success |-> FALSE, reason |-> "Not enough seats",
     available_seats |-> snap.available_seats]

BookingConfirmed(a, time) ==
    [success |-> TRUE, message |-> "Booking confirmed",
     restaurant_id |-> a.restaurant_id, time |-> time, party_size |-> a.party_size]

\* Mutant: the comparison of the admission check off by one.
Admission_OffByOne(a, snap) ==
    IF a.restaurant_id = SENTINEL_ID THEN "dummy"
    ELSE IF a.party_size.t # "num" THEN "raise"
    ELSE IF snap.available_seats + 1 < a.party_size.v THEN "denied"
    ELSE "admit"

\* Mutant: the sentinel id is checked against the store like any other id.
Admission_SentinelChecked(a, snap) ==
    IF a.party_size.t # "num" THEN "raise"
    ELSE IF snap.available_seats < a.party_size.v THEN "denied"
    ELSE "admit"

\* book_table up to its admission check: "dummy", "raise", "denied" or "admit".
\* snap["available_seats"] < party_size raises TypeError for a non-number.
Admission(a, snap) ==
    IF a.restaurant_id = SENTINEL_ID THEN "dummy"
    ELSE IF a.party_size.t # "num" THEN "raise"
    ELSE IF snap.available_seats < a.party_size.v THEN "denied"
    ELSE "admit"

\* Mutant: the snapshot is taken for the time string as given, the row is
\* inserted under the normalized one.
book_table_RawTimeCheck(rests, rows, a) ==
    LET time == NormalizeTime(a.time)
        snap == _availability_snapshot(rests, rows, a.restaurant_id, a.time)
        verdict == Admission(a, snap)
    IN CASE verdict = "dummy" ->
              [rows |-> rows, out |-> Returned(DummyConfirmed(a, time))]
         [] verdict = "raise" ->
              [rows |-> rows, out |-> Raised("TypeError")]
         [] verdict = "denied" ->
              [rows |-> rows, out |-> Returned(NotEnoughSeats(snap))]
         [] OTHER ->
              [rows |-> InsertBooking(rows, a.restaurant_id, a.customer_name,
                                      time, a.party_size.v),
               out |-> Returned(BookingConfirmed(a, time))]

\* book_table run from start to end with no other writer in between:
\* the rows it leaves and what it gives back.
book_table(rests, rows, a) ==
    LET time == NormalizeTime(a.time)
        snap == _availability_snapshot(rests, rows, a.restaurant_id, time)
        verdict == Admission(a, snap)
    IN CASE verdict = "dummy" ->
              [rows |-> rows, out |-> Returned(DummyConfirmed(a, time))]
         [] verdict = "raise" ->
              [rows |-> rows, out |-> Raised("TypeError")]
         [] verdict = "denied" ->
              [rows |-> rows, out |-> Returned(NotEnoughSeats(snap))]
         [] OTHER ->
              [rows |-> InsertBooking(rows, a.restaurant_id, a.customer_name,
                                      time, a.party_size.v),
               out |-> Returned(BookingConfirmed(a, time))]

-----------------------------------------------------------------------------
(* Direct calls of book_table, one at a time *)

NoCall == [made |-> FALSE]

Callers == { "c1", "c2" }

IdleCallers ==
    /\ bpc = [p \in Callers |-> "idle"]
    /\ bargs = [p \in Callers |-> NoCall]
    /\ bsnap = [p \in Callers |-> NoCall]
    /\ bout = [p \in Callers |-> NoCall]

NotRun == <<[role |-> "none"]>>

NoTranscript ==
    /\ transcript = <<>>
    /\ messages = NotRun
    /\ resanitized = NotRun

None == [none |-> TRUE]

NoAgent ==
    /\ pc = "idle"
    /\ plan = None
    /\ orchestrator_messages = <<>>
    /\ assistant_text = <<>>
    /\ tool_call = None
    /\ tool_output = None
    /\ result = None
    /\ sent = <<>>
    /\ replies = <<>>
    /\ executed = <<>>

\* Seed rows of a store in which no slot is overbooked (_seed_bookings).
SeedBookings ==
    { <<>>,
      <<[restaurant_id |-> 1, customer_name |-> "seed", time |-> Iso(1930, "", ""),
         party_size |-> 1]>> }

InitBook ==
    /\ restaurants = SeedRestaurants
    /\ bookings \in SeedBookings
    /\ last = NoCall
    /\ IdleCallers
    /\ NoTranscript
    /\ NoAgent

BookTableCall(a) ==
    /\ Len(bookings) < MaxBookings
    /\ LET r == book_table(restaurants, bookings, a)
       IN /\ bookings' = r.rows
          /\ last' = [made |-> TRUE, args |-> a, before |-> bookings, out |-> r.out]
    /\ UNCHANGED <<restaurants, bpc, bargs, bsnap, bout, sanVars, agentVars>>

NextBook == \E a \in BookArgs : BookTableCall(a)

SpecBook == InitBook /\ [][NextBook]_vars

-----------------------------------------------------------------------------
(* Concurrent calls of book_table: each caller opens its own connection,   *)
(* reads the snapshot (tools.py 185) and later inserts (tools.py 193-199); *)
(* no lock or transaction spans the two, so other callers run in between.  *)

InitRace ==
    /\ restaurants = SeedRestaurants
    /\ bookings \in SeedBookings
    /\ last = NoCall
    /\ IdleCallers
    /\ NoTranscript
    /\ NoAgent

\* Lines 169-185: normalize the time, answer for the dummy restaurant, or
\* read the snapshot.
BookRead(p, a) ==
    /\ bpc[p] = "idle"
    /\ LET time == NormalizeTime(a.time)
       IN /\ bargs' = [bargs EXCEPT ![p] = [a EXCEPT !.time = time]]
          /\ IF a.restaurant_id = SENTINEL_ID
             THEN /\ bpc' = [bpc EXCEPT ![p] = "done"]
                  /\ bout' = [bout EXCEPT ![p] = Returned(DummyConfirmed(a, time))]
                  /\ UNCHANGED bsnap
             ELSE /\ bpc' = [bpc EXCEPT ![p] = "read"]
                  /\ bsnap' = [bsnap EXCEPT ![p] =
                        _availability_snapshot(restaurants, bookings, a.restaurant_id, time)]
                  /\ UNCHANGED bout
    /\ UNCHANGED <<restaurants, bookings, last, sanVars, agentVars>>

\* Mutant: the insert is conditional on the seats left at insert time.
CommitRows_Recheck(rows, a, verdict) ==
    IF /\ verdict = "admit"
       /\ _availability_snapshot(SeedRestaurants, rows, a.restaurant_id,
                                 a.time).available_seats >= a.party_size.v
    THEN InsertBooking(rows, a.restaurant_id, a.customer_name, a.time, a.party_size.v)
    ELSE rows

\* Lines 186-208: the check against the snapshot read earlier, then the insert.
CommitRows(rows, a, verdict) ==
    IF verdict = "admit"
    THEN InsertBooking(rows, a.restaurant_id, a.customer_name, a.time, a.party_size.v)
    ELSE rows

BookCommit(p) ==
    /\ bpc[p] = "read"
    /\ LET a == bargs[p]
           verdict == Admission(a, bsnap[p])
       IN /\ bookings' = CommitRows(bookings, a, verdict)
          /\ bout' = [bout EXCEPT ![p] =
                CASE verdict = "raise" -> Raised("TypeError")
                  [] verdict = "denied" -> Returned(NotEnoughSeats(bsnap[p]))
                  [] OTHER -> Returned(BookingConfirmed(a, a.time))]
    /\ bpc' = [bpc EXCEPT ![p] = "done"]
    /\ UNCHANGED <<restaurants, last, bargs, bsnap, sanVars, agentVars>>

NextRace ==
    \/ \E p \in Callers, a \in BookArgs : BookRead(p, a)
    \/ \E p \in Callers : BookCommit(p)

SpecRace == InitRace /\ [][NextRace]_vars

-----------------------------------------------------------------------------
(* Claims about the booking tools *)

Slots(rows) == { <<rows[i].restaurant_id, rows[i].time>> : i \in 1 .. Len(rows) }

Overbooked(rests, rows) ==
    \E s \in Slots(rows) :
        s[1] \in DOMAIN rests /\ SumPartySize(rows, s[1], s[2]) > rests[s[1]]

Succeeded(out) == ~out.raised /\ out.payload.success

\* C2: under concurrent callers a caller whose snapshot showed enough seats
\* commits its row whatever was inserted since the snapshot was read: every
\* finished call that passed the check against its own snapshot reports
\* success and the table has grown by its row.
C2_StaleSnapshotCommits ==
    \A p \in Callers :
        (bpc[p] = "done" /\ bargs[p].restaurant_id # SENTINEL_ID
            /\ bargs[p].party_size.t = "num"
            /\ bsnap[p].available_seats >= bargs[p].party_size.v)
        => /\ Succeeded(bout[p])
           /\ \E i \in 1 .. Len(bookings) :
                 /\ bookings[i].restaurant_id = bargs[p].restaurant_id
                 /\ bookings[i].time = bargs[p].time
                 /\ bookings[i].party_size = bargs[p].party_size.v

\* C2 witness: both callers booked the same slot of restaurant 1 with success,
\* each after a snapshot that showed enough seats, and the slot now holds
\* more than the capacity.
C2_BothCommitOverbooked ==
    /\ \A p \in Callers : bpc[p] = "done" /\ Succeeded(bout[p])
    /\ bargs["c1"].restaurant_id = 1 /\ bargs["c2"].restaurant_id = 1
    /\ bargs["c1"].time = bargs["c2"].time
    /\ \A p \in Callers : bsnap[p].available_seats >= bargs[p].party_size.v
    /\ SumPartySize(bookings, 1, bargs["c1"].time) > restaurants[1]

\* C3: with calls run one at a time from a store with no slot overbooked, no
\* slot of a restaurant ever holds more than the restaurant's capacity.
C3_NoDoubleBooking == ~Overbooked(restaurants, bookings)

\* C3 witness: a slot filled exactly to capacity by several rows, and a
\* further request for it turned away.
C3_SlotFullThenDenied ==
    /\ last.made /\ ~last.out.raised /\ ~last.out.payload.success
    /\ Len(bookings) >= 2
    /\ \E s \in Slots(bookings) :
          /\ s[1] \in DOMAIN restaurants
          /\ s[1] = last.args.restaurant_id /\ s[2] = NormalizeTime(last.args.time)
          /\ SumPartySize(bookings, s[1], s[2]) = restaurants[s[1]]

\* C4 as claimed: a call for an id that is neither in restaurants nor the
\* sentinel returns success=false and leaves bookings unchanged.
C4_UnknownRestaurantNeverBooked ==
    (last.made /\ last.args.restaurant_id \notin DOMAIN restaurants
        /\ last.args.restaurant_id # SENTINEL_ID /\ ~last.out.raised)
    => ~last.out.payload.success /\ bookings = last.before

SeatsBefore ==
    _availability_snapshot(restaurants, last.before, last.args.restaurant_id,
                           NormalizeTime(last.args.time)).available_seats

AskedMoreThanAvailable ==
    last.made /\ last.args.party_size.t = "num" /\ last.args.party_size.v > SeatsBefore

DeniedUnchanged ==
    /\ last.out = Returned([success |-> FALSE, reason |-> "Not enough seats",
                            available_seats |-> SeatsBefore])
    /\ bookings = last.before

\* C5 as claimed: every call asking for more than the available seats is
\* denied with the reason and the seats left, and writes nothing.
C5_DeniedWhenOverAsked == AskedMoreThanAvailable => DeniedUnchanged

\* C5 amended: the same for every restaurant_id other than the sentinel.
C5_DeniedUnlessSentinel ==
    (AskedMoreThanAvailable /\ last.args.restaurant_id # SENTINEL_ID) => DeniedUnchanged

\* C5 witness: a request on a restaurant with seats already taken, asking for
\* more than is left.
C5_DeniedOnPartlyBookedSlot ==
    /\ AskedMoreThanAvailable
    /\ last.args.restaurant_id \in DOMAIN restaurants
    /\ SeatsBefore > 0 /\ SeatsBefore < restaurants[last.args.restaurant_id]

-----------------------------------------------------------------------------
(* agent.py: the conversation sanitizer *)

\* A message: role, content, the ids of its tool_calls (<<>> when the key is
\* absent or the list empty) and its tool_call_id ("" when absent).
Msg(role, content, tool_calls, tool_call_id) ==
    [role |-> role, content |-> content, tool_calls |-> tool_calls,
     tool_call_id |-> tool_call_id]

MessageKinds ==
    { Msg("user", <<"book a table for 4">>, <<>>, ""),
      Msg("system", <<"user_language:English">>, <<>>, ""),
      Msg("assistant", <<"Which restaurant?">>, <<>>, ""),
      Msg("assistant", <<"TOOL: book_table">>, <<"call_1">>, ""),
      Msg("assistant", <<"TOOL: search_restaurants">>, <<"call_2">>, ""),
      Msg("tool", <<"{success: true}">>, <<>>, "call_1"),
      Msg("tool", <<"[]">>, <<>>, "call_2") }

RECURSIVE SeqsUpTo(_, _)
SeqsUpTo(S, n) ==
    IF n = 0 THEN { <<>> }
    ELSE LET shorter == SeqsUpTo(S, n - 1)
         IN shorter \cup { Append(q, x) : q \in shorter, x \in S }

Transcripts == SeqsUpTo(MessageKinds, MaxTranscript)

\* The loop of _sanitize_history from index i on (1-based): the messages it
\* appends to clean.
RECURSIVE SanitizeFrom(_, _)
SanitizeFrom(msgs, i) ==
    IF i > Len(msgs) THEN <<>>
    ELSE LET msg == msgs[i]
             skip == /\ msg.role = "assistant" /\ msg.tool_calls # <<>>
                     /\ (i + 1 > Len(msgs) \/ msgs[i + 1].role # "tool")
         IN (IF skip THEN <<>> ELSE <<msg>>) \o SanitizeFrom(msgs, i + 1)

\* Mutant: the lookahead reads the message after the next one.
RECURSIVE SanitizeFrom_LookTwoAhead(_, _)
SanitizeFrom_LookTwoAhead(msgs, i) ==
    IF i > Len(msgs) THEN <<>>
    ELSE LET msg == msgs[i]
             skip == /\ msg.role = "assistant" /\ msg.tool_calls # <<>>
                     /\ (i + 2 > Len(msgs) \/ msgs[i + 2].role # "tool")
         IN (IF skip THEN <<>> ELSE <<msg>>) \o SanitizeFrom_LookTwoAhead(msgs, i + 1)

_sanitize_history_LookTwoAhead(msgs) == SanitizeFrom_LookTwoAhead(msgs, 1)

\* Mutant: every assistant message with tool_calls is dropped, and a tool
\* message that follows one is dropped with it.
RECURSIVE SanitizeFrom_DropPairs(_, _)
SanitizeFrom_DropPairs(msgs, i) ==
    IF i > Len(msgs) THEN <<>>
    ELSE LET msg == msgs[i]
             call == msg.role = "assistant" /\ msg.tool_calls # <<>>
             answer == /\ msg.role = "tool" /\ i > 1
                       /\ msgs[i - 1].role = "assistant" /\ msgs[i - 1].tool_calls # <<>>
         IN (IF call \/ answer THEN <<>> ELSE <<msg>>) \o SanitizeFrom_DropPairs(msgs, i + 1)

_sanitize_history_DropPairs(msgs) == SanitizeFrom_DropPairs(msgs, 1)

_sanitize_history(msgs) == SanitizeFrom(msgs, 1)

InitSan ==
    /\ restaurants = SeedRestaurants
    /\ bookings = <<>>
    /\ last = NoCall
    /\ IdleCallers
    /\ transcript \in Transcripts
    /\ messages = NotRun
    /\ resanitized = NotRun
    /\ NoAgent

Sanitize ==
    /\ messages = NotRun
    /\ messages' = _sanitize_history(transcript)
    /\ UNCHANGED <<storeVars, callVars, agentVars, transcript, resanitized>>

SanitizeAgain ==
    /\ messages # NotRun
    /\ resanitized = NotRun
    /\ resanitized' = _sanitize_history(messages)
    /\ UNCHANGED <<storeVars, callVars, agentVars, transcript, messages>>

NextSan == Sanitize \/ SanitizeAgain

SpecSan == InitSan /\ [][NextSan]_vars

-----------------------------------------------------------------------------
(* Text: a string is the sequence of its tokens, so that split, strip and   *)
(* the substring test of the code act on it.                               *)

Whitespace == { " ", "\n" }

Contains(text, seps) == \E i \in 1 .. Len(text) : text[i] \in seps

\* str.strip()
RECURSIVE LStrip(_)
LStrip(text) ==
    IF text # <<>> /\ Head(text) \in Whitespace THEN LStrip(Tail(text)) ELSE text

RECURSIVE RStrip(_)
RStrip(text) ==
    IF text # <<>> /\ text[Len(text)] \in Whitespace
    THEN RStrip(SubSeq(text, 1, Len(text) - 1)) ELSE text

Strip(text) == RStrip(LStrip(text))

\* str.split(sep): the pieces between the occurrences of a separator token.
RECURSIVE Split(_, _)
Split(text, seps) ==
    IF text = <<>> THEN << <<>> >>
    ELSE LET rest == Split(Tail(text), seps)
         IN IF Head(text) \in seps
            THEN << <<>> >> \o rest
            ELSE << <<Head(text)>> \o Head(rest) >> \o Tail(rest)

-----------------------------------------------------------------------------
(* JSON documents the model collaborator may write, each one token of a    *)
(* text, and the value json.loads gives for it.                            *)

Arr(items) == [t |-> "arr", items |-> items]
Obj(o) == [t |-> "obj", o |-> o]
Null == [t |-> "null"]
EmptyDict == [k \in {} |-> Null]

BookFor(restaurant_id, time, party_size) ==
    Obj([restaurant_id |-> restaurant_id, customer_name |-> "Asha",
         time |-> time, party_size |-> party_size])

PlanDoc(intent, slots, tools, missing) ==
    Obj([intent |-> intent, slots |-> slots, recommended_tools |-> tools,
         missing_slots |-> missing])

JsonDocs ==
    { "{plan: ask}", "{plan: book}", "{plan: ghost}", "{plan: names}", "{plan: no tools key}",
      "{plan: tools 5}", "{plan: tools nested}", "{plan: tools str}",
      "[1]", "42", "{}",
      "{book 1 for 2}", "{book 1 for 2 :00}", "{book 7 for 0}",
      "{book 999999 for 2}", "{book 1 for four}", "{book 1}", "{search}" }

JsonValue(doc) ==
    CASE doc = "{plan: ask}" ->
            PlanDoc("book_table", [party_size |-> Num(4)], Arr(<<>>),
                    Arr(<<Str(<<"restaurant">>), Str(<<"time">>)>>))
      [] doc = "{plan: book}" ->
            PlanDoc("book_table", [party_size |-> Num(4)],
                    Arr(<<Str(<<"search_restaurants">>), Str(<<"book_table">>)>>),
                    Arr(<<>>))
      [] doc = "{plan: ghost}" ->
            PlanDoc("find_and_book", [party_size |-> Num(4)],
                    Arr(<<Str(<<"search_restaurants">>), Str(<<"ghost_tool">>),
                          Str(<<"book_table">>), Num(3)>>),
                    Arr(<<>>))
      [] doc = "{plan: names}" ->
            PlanDoc("book_table", EmptyDict,
                    Arr(<<Str(<<"book_table">>), Str(<<"ghost_tool">>),
                          Str(<<"search_restaurants">>), Str(<<"book_table">>),
                          Str(<<"log_feedback">>)>>),
                    Arr(<<>>))
      [] doc = "{plan: no tools key}" ->
            Obj([intent |-> "other", slots |-> EmptyDict])
      [] doc = "{plan: tools 5}" ->
            PlanDoc("other", EmptyDict, Num(5), Arr(<<>>))
      [] doc = "{plan: tools nested}" ->
            PlanDoc("other", EmptyDict, Arr(<<Arr(<<Str(<<"book_table">>)>>)>>), Arr(<<>>))
      [] doc = "{plan: tools str}" ->
            PlanDoc("other", EmptyDict, Str(<<"book_table">>), Arr(<<>>))
      [] doc = "[1]" -> Arr(<<Num(1)>>)
      [] doc = "42" -> Num(42)
      [] doc = "{}" -> Obj(EmptyDict)
      [] doc = "{book 1 for 2}" -> BookFor(1, Iso(1930, "", ""), Num(2))
      [] doc = "{book 1 for 2 :00}" -> BookFor(1, Iso(1930, ":00", ""), Num(2))
      [] doc = "{book 7 for 0}" -> BookFor(7, Iso(1930, "", ""), Num(0))
      [] doc = "{book 999999 for 2}" -> BookFor(SENTINEL_ID, Iso(1930, "", ""), Num(2))
      [] doc = "{book 1 for four}" -> BookFor(1, Iso(1930, "", ""), Str(<<"four">>))
      [] doc = "{book 1}" -> Obj([restaurant_id |-> 1])
      [] doc = "{search}" -> Obj([time |-> Iso(1930, ":00", ""), party_size |-> Num(2)])

\* json.loads: the text must be one document, white space around it allowed.
json_loads(text) ==
    LET body == Strip(text)
    IN IF Len(body) = 1 /\ body[1] \in JsonDocs
       THEN [ok |-> TRUE, value |-> JsonValue(body[1])]
       ELSE [ok |-> FALSE]

-----------------------------------------------------------------------------
(* agent.py: the tool invocation parser *)

NoToolCall == [found |-> FALSE]

\* Mutant: a directive without an ARGS: part is a call with no arguments.
detect_tool_call_ArgsOptional(text) ==
    IF ~Contains(text, {"TOOL:"}) THEN NoToolCall
    ELSE LET tool == Strip(Split(Split(text, {"TOOL:"})[2], {"\n"})[1])
             by_args == Split(text, {"ARGS:"})
         IN IF Len(by_args) < 2 THEN [found |-> TRUE, name |-> tool, args |-> Obj(EmptyDict)]
            ELSE LET args == json_loads(Strip(by_args[2]))
                 IN IF ~args.ok THEN NoToolCall
                    ELSE [found |-> TRUE, name |-> tool, args |-> args.value]

detect_tool_call(text) ==
    IF ~Contains(text, {"TOOL:"}) THEN NoToolCall
    ELSE LET tool == Strip(Split(Split(text, {"TOOL:"})[2], {"\n"})[1])
             by_args == Split(text, {"ARGS:"})
         IN IF Len(by_args) < 2 THEN NoToolCall
            ELSE LET args == json_loads(Strip(by_args[2]))
                 IN IF ~args.ok THEN NoToolCall
                    ELSE [found |-> TRUE, name |-> tool, args |-> args.value]

\* detect_tool_call on its own, on every text of up to MaxText tokens.
TextTokens == { "TOOL:", "ARGS:", "\n", " ", "book_table", "{}", "[1]" }

Texts == SeqsUpTo(TextTokens, MaxText)

InitParse ==
    /\ restaurants = SeedRestaurants
    /\ bookings = <<>>
    /\ last = NoCall
    /\ IdleCallers
    /\ NoTranscript
    /\ pc = "unparsed"
    /\ plan = None
    /\ orchestrator_messages = <<>>
    /\ assistant_text \in Texts
    /\ tool_call = None
    /\ tool_output = None
    /\ result = None
    /\ sent = <<>>
    /\ replies = <<>>
    /\ executed = <<>>

ParseCompletion ==
    /\ pc = "unparsed"
    /\ tool_call' = detect_tool_call(assistant_text)
    /\ pc' = "parsed"
    /\ UNCHANGED <<storeVars, callVars, sanVars, plan, orchestrator_messages,
                   assistant_text, tool_output, result, sent, replies, executed>>

NextParse == ParseCompletion

SpecParse == InitParse /\ [][NextParse]_vars

-----------------------------------------------------------------------------
(* tools.py: the registry and the dispatcher *)

TOOL_REGISTRY ==
    { <<"search_restaurants">>, <<"synthetic_restaurant_info">>, <<"book_table">> }

DEFAULT_MAX_RESULTS == 6

\* The keyword parameters of each tool function: those without a default,
\* and all of them.
Required(name) ==
    CASE name = <<"book_table">> ->
            {"restaurant_id", "customer_name", "time", "party_size"}
      [] name = <<"synthetic_restaurant_info">> -> {"name"}
      [] OTHER -> {}

Accepted(name) ==
    CASE name = <<"book_table">> ->
            {"restaurant_id", "customer_name", "time", "party_size"}
      [] name = <<"synthetic_restaurant_info">> -> {"name", "city", "data"}
      [] OTHER ->
            {"cuisine", "city", "neighborhood", "price_label", "min_rating",
             "veg_only", "party_size", "time"}

\* The call with args as keyword arguments reaches the function body: args
\* is a mapping whose keys are
\* parameters of func and cover those without a default.
Binds(name, args) ==
    /\ args.t = "obj"
    /\ Required(name) \subseteq DOMAIN args.o
    /\ DOMAIN args.o \subseteq Accepted(name)

\* The rows search_restaurants selects, in the order of the query; the
\* filter columns are not part of the model, so every restaurant matches.
RECURSIVE Ascending(_)
Ascending(ids) ==
    IF ids = {} THEN <<>>
    ELSE LET least == CHOOSE i \in ids : \A j \in ids : i <= j
         IN <<least>> \o Ascending(ids \ {least})

FirstN(q, n) == SubSeq(q, 1, IF Len(q) < n THEN Len(q) ELSE n)

search_restaurants(rests, rows, o, now) ==
    LET check_time == IF "time" \in DOMAIN o THEN o.time ELSE now
        found == FirstN(Ascending(DOMAIN rests), DEFAULT_MAX_RESULTS)
    IN Arr([i \in 1 .. Len(found) |->
            [id |-> found[i], capacity |-> rests[found[i]],
             available_seats |->
                _availability_snapshot(rests, rows, found[i], check_time).available_seats]])

synthetic_restaurant_info(o) == [id |-> SENTINEL_ID, name |-> o.name]

UnknownTool == [error |-> "Unknown tool"]

\* Mutant: what the tool function raises leaves execute_tool as it is.
execute_tool_Uncaught(rests, rows, name, args, now) ==
    IF name \notin TOOL_REGISTRY THEN [rows |-> rows, output |-> UnknownTool]
    ELSE IF ~Binds(name, args) THEN [rows |-> rows, output |-> [exception |-> "TypeError"]]
    ELSE CASE name = <<"book_table">> ->
                LET r == book_table(rests, rows, args.o)
                IN [rows |-> r.rows,
                    output |-> IF r.out.raised THEN [exception |-> r.out.payload.error]
                               ELSE r.out.payload]
           [] name = <<"search_restaurants">> ->
                [rows |-> rows, output |-> search_restaurants(rests, rows, args.o, now)]
           [] OTHER ->
                [rows |-> rows, output |-> synthetic_restaurant_info(args.o)]

\* execute_tool: the rows it leaves and the string it returns.
execute_tool(rests, rows, name, args, now) ==
    IF name \notin TOOL_REGISTRY THEN [rows |-> rows, output |-> UnknownTool]
    ELSE IF ~Binds(name, args) THEN [rows |-> rows, output |-> [error |-> "TypeError"]]
    ELSE CASE name = <<"book_table">> ->
                LET r == book_table(rests, rows, args.o)
                IN [rows |-> r.rows, output |-> r.out.payload]
           [] name = <<"search_restaurants">> ->
                [rows |-> rows, output |-> search_restaurants(rests, rows, args.o, now)]
           [] OTHER ->
                [rows |-> rows, output |-> synthetic_restaurant_info(args.o)]

-----------------------------------------------------------------------------
(* search_restaurants and book_table called in turn on a store of two      *)
(* restaurants, at times that differ by the seconds field, by a minute and *)
(* by the offset notation.                                                  *)

TwoRestaurants == (1 :> 2) @@ (2 :> 1)

SlotTimes ==
    { Iso(1930, "", ""), Iso(1930, ":00", ""), Iso(1931, "", ""),
      Iso(1930, "", "+00:00") }

SlotArgs ==
    [restaurant_id : DOMAIN TwoRestaurants, customer_name : CustomerNames,
     time : SlotTimes, party_size : { Num(n) : n \in 1 .. MaxParty }]

InitSlots ==
    /\ restaurants = TwoRestaurants
    /\ bookings = <<>>
    /\ last = NoCall
    /\ IdleCallers
    /\ NoTranscript
    /\ NoAgent

\* A call of search_restaurants with a time argument: what it reported, and
\* the rows of the store it read.
SearchCall(time) ==
    /\ tool_output' = [time |-> time, rows |-> bookings,
                       reported |-> search_restaurants(restaurants, bookings,
                                                       [time |-> time], time).items]
    /\ last' = NoCall
    /\ UNCHANGED <<storeVars, bpc, bargs, bsnap, bout, sanVars, pc, plan,
                   orchestrator_messages, assistant_text, tool_call, result, sent,
                   replies, executed>>

\* A call of book_table; the report of a search made on other rows than it
\* finds is forgotten.
BookAfterSearch(a) ==
    /\ Len(bookings) < MaxBookings
    /\ LET r == book_table(restaurants, bookings, a)
       IN /\ bookings' = r.rows
          /\ last' = [made |-> TRUE, args |-> a, before |-> bookings, out |-> r.out]
    /\ tool_output' = IF tool_output # None /\ tool_output.rows = bookings
                      THEN tool_output ELSE None
    /\ UNCHANGED <<restaurants, bpc, bargs, bsnap, bout, sanVars, pc, plan,
                   orchestrator_messages, assistant_text, tool_call, result, sent,
                   replies, executed>>

NextSlots ==
    \/ \E time \in SlotTimes : SearchCall(time)
    \/ \E a \in SlotArgs : BookAfterSearch(a)

SpecSlots == InitSlots /\ [][NextSlots]_vars

-----------------------------------------------------------------------------
(* agent.py: the model collaborator and the plan extractor *)

\* What a call of hf_chat gives: it raises, or it returns a text.
Fails == [failed |-> TRUE]
Says(text) == [failed |-> FALSE, text |-> text]

PLAN_WINDOW == 20

LastN(q, n) == IF Len(q) <= n THEN q ELSE SubSeq(q, Len(q) - n + 1, Len(q))

planner_msgs(msgs) ==
    << Msg("system", <<"PLANNER_PROMPT">>, <<>>, ""),
       Msg("user", LastN(msgs, PLAN_WINDOW), <<>>, "") >>

\* The markers of a fenced code block: three backquotes, and three
\* backquotes followed by json (which the former is a prefix of).
Fence == "<fence>"
FenceJson == "<fence>json"

\* Lines 173-176: the text inside the first fenced block, if there is one.
ExtractJson(raw) ==
    IF Contains(raw, {FenceJson})
    THEN Strip(Split(Split(raw, {FenceJson})[2], {Fence, FenceJson})[1])
    ELSE IF Contains(raw, {Fence})
    THEN Strip(Split(raw, {Fence})[2])
    ELSE raw

DefaultPlan ==
    [intent |-> "other", slots |-> EmptyDict, recommended_tools |-> Arr(<<>>),
     reasoning |-> "planner_error"]

Unhashable(v) == v.t \in {"arr", "obj"}

\* Mutant: the names are passed on as recommended, not looked up.
RECURSIVE Registered_Unfiltered(_)
Registered_Unfiltered(items) ==
    IF items = <<>> THEN <<>>
    ELSE LET x == Head(items)
         IN (IF x.t = "str" THEN <<x.s>> ELSE <<>>) \o Registered_Unfiltered(Tail(items))

\* Mutant: the registered names are collected last to first.
RECURSIVE Registered_Reversed(_)
Registered_Reversed(items) ==
    IF items = <<>> THEN <<>>
    ELSE LET x == Head(items)
         IN Registered_Reversed(Tail(items))
            \o (IF x.t = "str" /\ x.s \in TOOL_REGISTRY THEN <<x.s>> ELSE <<>>)

RECURSIVE Registered(_)
Registered(items) ==
    IF items = <<>> THEN <<>>
    ELSE LET x == Head(items)
         IN (IF x.t = "str" /\ x.s \in TOOL_REGISTRY THEN <<x.s>> ELSE <<>>)
            \o Registered(Tail(items))

\* Lines 190-192: [t for t in recommended if t in TOOL_REGISTRY].  Iterating
\* a number or null raises, and so does looking up a list or an object; the
\* characters of a string are no tool names.  (No document of the model has a
\* mapping as recommended_tools.)
FilterTools(recommended) ==
    CASE recommended.t = "arr" ->
            IF \E i \in 1 .. Len(recommended.items) : Unhashable(recommended.items[i])
            THEN [raised |-> TRUE]
            ELSE [raised |-> FALSE, tools |-> Registered(recommended.items)]
      [] recommended.t = "str" -> [raised |-> FALSE, tools |-> <<>>]
      [] OTHER -> [raised |-> TRUE]

WithTools(o, tools) ==
    [k \in DOMAIN o \cup {"recommended_tools"} |->
        IF k = "recommended_tools" THEN tools ELSE o[k]]

\* Mutant: after a failure the plan of the last resort is an empty mapping.
_generate_plan_EmptyFallback(reply) ==
    LET parsed == IF reply.failed THEN [ok |-> FALSE]
                  ELSE json_loads(ExtractJson(reply.text))
        loaded == IF parsed.ok THEN parsed.value ELSE Obj(EmptyDict)
    IN IF loaded.t # "obj" THEN [raised |-> TRUE, error |-> "AttributeError"]
       ELSE LET recommended == IF "recommended_tools" \in DOMAIN loaded.o
                               THEN loaded.o.recommended_tools ELSE Arr(<<>>)
                kept == FilterTools(recommended)
            IN IF kept.raised THEN [raised |-> TRUE, error |-> "TypeError"]
               ELSE [raised |-> FALSE, plan |-> WithTools(loaded.o, kept.tools)]

\* _generate_plan, given what hf_chat does on the planning call: the Plan it
\* returns, or the exception that leaves it.
_generate_plan(reply) ==
    LET parsed == IF reply.failed THEN [ok |-> FALSE]
                  ELSE json_loads(ExtractJson(reply.text))
        loaded == IF parsed.ok THEN parsed.value ELSE Obj(DefaultPlan)
    IN IF loaded.t # "obj" THEN [raised |-> TRUE, error |-> "AttributeError"]
       ELSE LET recommended == IF "recommended_tools" \in DOMAIN loaded.o
                               THEN loaded.o.recommended_tools ELSE Arr(<<>>)
                kept == FilterTools(recommended)
            IN IF kept.raised THEN [raised |-> TRUE, error |-> "TypeError"]
               ELSE [raised |-> FALSE, plan |-> WithTools(loaded.o, kept.tools)]

-----------------------------------------------------------------------------
(* agent.py: run_agent, one invocation on the caller's transcript.  Each   *)
(* action runs the code up to its next call of a collaborator (the model,  *)
(* the store) and takes what the collaborator answers as its input.        *)

UserAsks == Msg("user", <<"book a table for 4">>, <<>>, "")
SystemLanguage == Msg("system", <<"user_language:English">>, <<>>, "")
OldToolCall == Msg("assistant", <<"TOOL: book_table">>, <<"call_1">>, "")
OldToolResult == Msg("tool", <<"{success: true}">>, <<>>, "call_1")
OtherToolResult == Msg("tool", <<"{success: true}">>, <<>>, "call_2")

\* Transcripts the caller passes: app.py appends the user's prompt and a
\* system message; the last three hold tool calls of an earlier turn, the
\* last one followed by the result of another call.
AgentTranscripts ==
    { <<UserAsks>>,
      <<UserAsks, SystemLanguage>>,
      <<OldToolCall, UserAsks, SystemLanguage>>,
      <<OldToolCall, OldToolResult, UserAsks>>,
      <<OldToolCall, OtherToolResult, UserAsks>> }

PlannerReplies ==
    { Fails,
      Says(<<"{plan: ask}">>),
      Says(<<"{plan: book}">>),
      Says(<<"Here is the plan:", "\n", FenceJson, "\n", "{plan: ghost}", "\n", Fence>>),
      Says(<<Fence, "\n", "{plan: ask}", "\n", Fence>>),
      Says(<<"Plan:", " ", "{plan: book}">>),
      Says(<<"I cannot help with that.">>),
      Says(<<"{plan: names}">>),
      Says(<<"{plan: no tools key}">>),
      Says(<<"{plan: tools 5}">>),
      Says(<<"{plan: tools nested}">>),
      Says(<<"{plan: tools str}">>),
      Says(<<"[1]">>),
      Says(<<"42">>) }

Directive(name, doc) == <<"TOOL:", " ", name, "\n", "ARGS:", " ", doc>>

FirstReplies ==
    { Fails,
      Says(<<"Sure! Which restaurant, for how many people, and at what time?">>),
      Says(Directive("book_table", "{book 1 for 2}")),
      Says(<<"Booking now.", "\n">> \o Directive("book_table", "{book 1 for 2 :00}")),
      Says(Directive("book_table", "{book 7 for 0}")),
      Says(Directive("book_table", "{book 999999 for 2}")),
      Says(Directive("book_table", "{book 1 for four}")),
      Says(Directive("book_table", "{book 1}")),
      Says(Directive("book_table", "[1]")),
      Says(Directive("search_restaurants", "{search}")),
      Says(Directive("search_restaurants", "{}")),
      Says(Directive("ghost_tool", "{}")),
      Says(<<"TOOL:", " ", "book_table", " ", "ARGS:", " ", "{book 1 for 2}">>),
      Says(<<"TOOL:", " ", "book_table", "\n", "ARGS:", " ", "{book 1 for 2}", "\n", "Done.">>),
      Says(<<"TOOL:", " ", "book_table">>) }

SecondReplies ==
    { Fails,
      Says(<<"Your table is booked.">>),
      Says(Directive("book_table", "{book 1 for 2}")) }

\* What _now_iso_minutes may return.
Clock == { Iso(1930, "", ""), Iso(2015, "", "") }

Init ==
    /\ restaurants = SeedRestaurants
    /\ bookings \in SeedBookings
    /\ last = NoCall
    /\ IdleCallers
    /\ transcript \in AgentTranscripts
    /\ messages = NotRun
    /\ resanitized = NotRun
    /\ pc = "COLLECTING_SLOTS"
    /\ plan = None
    /\ orchestrator_messages = <<>>
    /\ assistant_text = <<>>
    /\ tool_call = None
    /\ tool_output = None
    /\ result = None
    /\ sent = <<>>
    /\ replies = <<>>
    /\ executed = <<>>

\* json.dumps of the four keys read with plan.get (None for a missing key).
PlanGet(p, key) == IF key \in DOMAIN p THEN p[key] ELSE None

plan_json(p) ==
    [intent |-> PlanGet(p, "intent"), slots |-> PlanGet(p, "slots"),
     recommended_tools |-> PlanGet(p, "recommended_tools"),
     reasoning |-> PlanGet(p, "reasoning")]

Response(content, p, used_tools) ==
    [content |-> content, plan |-> p, used_tools |-> used_tools]

\* Mutant: a planning call that fails is made a second time.
PlanStep_CallsPlannerAgain(reply) ==
    /\ pc = "COLLECTING_SLOTS"
    /\ LET clean == _sanitize_history(transcript)
           got == _generate_plan(reply)
       IN /\ messages' = clean
          /\ sent' = IF reply.failed
                     THEN sent \o <<planner_msgs(clean), planner_msgs(clean)>>
                     ELSE Append(sent, planner_msgs(clean))
          /\ replies' = IF reply.failed THEN replies \o <<reply, reply>>
                        ELSE Append(replies, reply)
          /\ IF got.raised
             THEN /\ pc' = "RAISED"
                  /\ result' = [exception |-> got.error]
                  /\ UNCHANGED <<plan, orchestrator_messages>>
             ELSE /\ pc' = "PLANNED"
                  /\ plan' = got.plan
                  /\ orchestrator_messages' =
                        << Msg("system", <<"SYSTEM_PROMPT">>, <<>>, ""),
                           Msg("system", <<"Planner directive: ", plan_json(got.plan)>>,
                               <<>>, "") >> \o clean
                  /\ UNCHANGED result
    /\ UNCHANGED <<storeVars, callVars, transcript, resanitized, assistant_text,
                   tool_call, tool_output, executed>>

\* Lines 224-239: sanitize, extract the plan (one call of the model), build
\* the list for the first completion.  An exception of _generate_plan is not
\* caught by run_agent.
PlanStep(reply) ==
    /\ pc = "COLLECTING_SLOTS"
    /\ LET clean == _sanitize_history(transcript)
           got == _generate_plan(reply)
       IN /\ messages' = clean
          /\ sent' = Append(sent, planner_msgs(clean))
          /\ replies' = Append(replies, reply)
          /\ IF got.raised
             THEN /\ pc' = "RAISED"
                  /\ result' = [exception |-> got.error]
                  /\ UNCHANGED <<plan, orchestrator_messages>>
             ELSE /\ pc' = "PLANNED"
                  /\ plan' = got.plan
                  /\ orchestrator_messages' =
                        << Msg("system", <<"SYSTEM_PROMPT">>, <<>>, ""),
                           Msg("system", <<"Planner directive: ", plan_json(got.plan)>>,
                               <<>>, "") >> \o clean
                  /\ UNCHANGED result
    /\ UNCHANGED <<storeVars, callVars, transcript, resanitized, assistant_text,
                   tool_call, tool_output, executed>>

\* Mutant: a failed first completion is tried again (twice at most).
FirstCompletion_Retry(reply) ==
    /\ pc = "PLANNED"
    /\ sent' = Append(sent, orchestrator_messages)
    /\ replies' = Append(replies, reply)
    /\ IF reply.failed
       THEN /\ IF Len(replies) < 3
               THEN pc' = "PLANNED" /\ UNCHANGED result
               ELSE /\ pc' = "RESPONDED"
                    /\ result' = Response(<<"HF API Error: ", "e">>, plan, <<>>)
            /\ UNCHANGED <<assistant_text, tool_call>>
       ELSE /\ assistant_text' = reply.text
            /\ LET call == detect_tool_call(reply.text)
               IN IF ~call.found
                  THEN /\ pc' = "RESPONDED"
                       /\ result' = Response(reply.text, plan, <<>>)
                       /\ UNCHANGED tool_call
                  ELSE /\ pc' = "TOOL_PENDING"
                       /\ tool_call' = call
                       /\ UNCHANGED result
    /\ UNCHANGED <<storeVars, callVars, sanVars, plan, orchestrator_messages,
                   tool_output, executed>>

\* Mutant: a directive that does not parse is answered with an error text.
FirstCompletion_RejectsMalformed(reply) ==
    /\ pc = "PLANNED"
    /\ sent' = Append(sent, orchestrator_messages)
    /\ replies' = Append(replies, reply)
    /\ IF reply.failed
       THEN /\ pc' = "RESPONDED"
            /\ result' = Response(<<"HF API Error: ", "e">>, plan, <<>>)
            /\ UNCHANGED <<assistant_text, tool_call>>
       ELSE /\ assistant_text' = reply.text
            /\ LET call == detect_tool_call(reply.text)
               IN IF ~call.found
                  THEN /\ pc' = "RESPONDED"
                       /\ result' = Response(IF Contains(reply.text, {"TOOL:"})
                                             THEN <<"Malformed tool call">>
                                             ELSE reply.text, plan, <<>>)
                       /\ UNCHANGED tool_call
                  ELSE /\ pc' = "TOOL_PENDING"
                       /\ tool_call' = call
                       /\ UNCHANGED result
    /\ UNCHANGED <<storeVars, callVars, sanVars, plan, orchestrator_messages,
                   tool_output, executed>>

\* Lines 241-255: the first completion and the parse of its text.
FirstCompletion(reply) ==
    /\ pc = "PLANNED"
    /\ sent' = Append(sent, orchestrator_messages)
    /\ replies' = Append(replies, reply)
    /\ IF reply.failed
       THEN /\ pc' = "RESPONDED"
            /\ result' = Response(<<"HF API Error: ", "e">>, plan, <<>>)
            /\ UNCHANGED <<assistant_text, tool_call>>
       ELSE /\ assistant_text' = reply.text
            /\ LET call == detect_tool_call(reply.text)
               IN IF ~call.found
                  THEN /\ pc' = "RESPONDED"
                       /\ result' = Response(reply.text, plan, <<>>)
                       /\ UNCHANGED tool_call
                  ELSE /\ pc' = "TOOL_PENDING"
                       /\ tool_call' = call
                       /\ UNCHANGED result
    /\ UNCHANGED <<storeVars, callVars, sanVars, plan, orchestrator_messages,
                   tool_output, executed>>

\* Mutant: the two messages are appended to the list the caller passed in
\* as well.
Dispatch_AppendsToCallerList(now) ==
    /\ pc = "TOOL_PENDING"
    /\ LET r == execute_tool(restaurants, bookings, tool_call.name, tool_call.args, now)
           pair == << Msg("assistant", assistant_text, <<"call_1">>, ""),
                      Msg("tool", <<r.output>>, <<>>, "call_1") >>
       IN /\ bookings' = r.rows
          /\ tool_output' = r.output
          /\ executed' = Append(executed,
                [name |-> tool_call.name, args |-> tool_call.args,
                 output |-> r.output, before |-> bookings, after |-> r.rows])
          /\ orchestrator_messages' = orchestrator_messages \o pair
          /\ transcript' = transcript \o pair
    /\ pc' = "TOOL_EXECUTED"
    /\ UNCHANGED <<restaurants, callVars, messages, resanitized, plan, assistant_text,
                   tool_call, result, sent, replies>>

\* Lines 257-278: dispatch the tool and append the tool-call message and
\* the tool-result message.
Dispatch(now) ==
    /\ pc = "TOOL_PENDING"
    /\ LET r == execute_tool(restaurants, bookings, tool_call.name, tool_call.args, now)
       IN /\ bookings' = r.rows
          /\ tool_output' = r.output
          /\ executed' = Append(executed,
                [name |-> tool_call.name, args |-> tool_call.args,
                 output |-> r.output, before |-> bookings, after |-> r.rows])
          /\ orchestrator_messages' = orchestrator_messages \o
                << Msg("assistant", assistant_text, <<"call_1">>, ""),
                   Msg("tool", <<r.output>>, <<>>, "call_1") >>
    /\ pc' = "TOOL_EXECUTED"
    /\ UNCHANGED <<restaurants, callVars, sanVars, plan, assistant_text, tool_call,
                   result, sent, replies>>

\* Mutant: a directive in the second completion is parsed and dispatched too
\* (once more).
SecondCompletion_DispatchAgain(reply) ==
    /\ pc = "TOOL_EXECUTED"
    /\ sent' = Append(sent, orchestrator_messages)
    /\ replies' = Append(replies, reply)
    /\ LET call == IF reply.failed THEN NoToolCall ELSE detect_tool_call(reply.text)
       IN IF call.found /\ Len(executed) < 2
          THEN /\ pc' = "TOOL_PENDING"
               /\ tool_call' = call
               /\ assistant_text' = reply.text
               /\ UNCHANGED result
          ELSE /\ pc' = "RESPONDED"
               /\ result' = Response(IF reply.failed THEN <<"Executed tool ">> ELSE reply.text,
                                     plan, <<tool_call.name>>)
               /\ UNCHANGED <<tool_call, assistant_text>>
    /\ UNCHANGED <<storeVars, callVars, sanVars, plan, orchestrator_messages,
                   tool_output, executed>>

\* Mutant: a failure of the second completion is reported like one of the
\* first.
SecondCompletion_SurfacesError(reply) ==
    /\ pc = "TOOL_EXECUTED"
    /\ sent' = Append(sent, orchestrator_messages)
    /\ replies' = Append(replies, reply)
    /\ result' = IF reply.failed
                 THEN Response(<<"HF API Error: ", "e">>, plan, <<tool_call.name>>)
                 ELSE Response(reply.text, plan, <<tool_call.name>>)
    /\ pc' = "RESPONDED"
    /\ UNCHANGED <<storeVars, callVars, sanVars, plan, orchestrator_messages,
                   assistant_text, tool_call, tool_output, executed>>

\* Mutant: when the second completion fails, what the tool wrote is undone.
SecondCompletion_RollsBack(reply) ==
    /\ pc = "TOOL_EXECUTED"
    /\ sent' = Append(sent, orchestrator_messages)
    /\ replies' = Append(replies, reply)
    /\ LET final_answer ==
              IF reply.failed
              THEN <<"Executed tool ">> \o tool_call.name \o <<". Result: ", tool_output>>
              ELSE reply.text
       IN result' = Response(final_answer, plan, <<tool_call.name>>)
    /\ bookings' = IF reply.failed THEN executed[1].before ELSE bookings
    /\ pc' = "RESPONDED"
    /\ UNCHANGED <<restaurants, callVars, sanVars, plan, orchestrator_messages,
                   assistant_text, tool_call, tool_output, executed>>

\* Lines 280-290: the second completion, or the templated text if it fails.
SecondCompletion(reply) ==
    /\ pc = "TOOL_EXECUTED"
    /\ sent' = Append(sent, orchestrator_messages)
    /\ replies' = Append(replies, reply)
    /\ LET final_answer ==
              IF reply.failed
              THEN <<"Executed tool ">> \o tool_call.name \o <<". Result: ", tool_output>>
              ELSE reply.text
       IN result' = Response(final_answer, plan, <<tool_call.name>>)
    /\ pc' = "RESPONDED"
    /\ UNCHANGED <<storeVars, callVars, sanVars, plan, orchestrator_messages,
                   assistant_text, tool_call, tool_output, executed>>

Next ==
    \/ \E reply \in PlannerReplies : PlanStep(reply)
    \/ \E reply \in FirstReplies : FirstCompletion(reply)
    \/ \E now \in Clock : Dispatch(now)
    \/ \E reply \in SecondReplies : SecondCompletion(reply)

Spec == Init /\ [][Next]_vars

\* run_agent is straight-line code: given that every collaborator call
\* returns or fails, the step that is enabled is taken.
SpecLive == Spec /\ WF_vars(Next)

-----------------------------------------------------------------------------
(* Claims about run_agent *)

IsText(x) == DOMAIN x = 1 .. Len(x)

\* C1 as claimed: no exception leaves run_agent, and what it returns is
\* {content, plan, used_tools} with a string as content.
C1_NeverRaises ==
    /\ pc # "RAISED"
    /\ pc = "RESPONDED" =>
          /\ DOMAIN result = {"content", "plan", "used_tools"}
          /\ IsText(result.content)

\* C9 as claimed: execute_tool is never called with a name that is not a
\* key of TOOL_REGISTRY.
C9_OnlyRegisteredNamesDispatched ==
    \A i \in 1 .. Len(executed) : executed[i].name \in TOOL_REGISTRY

\* C9 amended: a name that is not in the registry is never recommended by
\* the Plan and never runs a tool function: execute_tool called with it
\* returns the Unknown tool payload and leaves the store as it was.
C9_UnregisteredNameRunsNoTool ==
    /\ pc \in {"PLANNED", "TOOL_PENDING", "TOOL_EXECUTED", "RESPONDED"} =>
          \A i \in 1 .. Len(plan.recommended_tools) :
              plan.recommended_tools[i] \in TOOL_REGISTRY
    /\ \A i \in 1 .. Len(executed) :
          executed[i].name \notin TOOL_REGISTRY =>
              /\ executed[i].output = UnknownTool
              /\ executed[i].after = executed[i].before
              /\ bookings = executed[i].before

\* C9 witness: the planning reply recommended an unregistered name among
\* registered ones, the first completion asked for an unregistered tool, and
\* run_agent has returned.
C9_HallucinatedNameDispatched ==
    /\ pc = "RESPONDED"
    /\ plan.intent = "find_and_book"
    /\ plan.recommended_tools = << <<"search_restaurants">>, <<"book_table">> >>
    /\ Len(executed) = 1
    /\ executed[1].name = <<"ghost_tool">>
    /\ result.used_tools = << <<"ghost_tool">> >>

SlotsMissingNoTools ==
    /\ pc \in {"PLANNED", "TOOL_PENDING", "TOOL_EXECUTED", "RESPONDED"}
    /\ "missing_slots" \in DOMAIN plan
    /\ plan.missing_slots.t = "arr" /\ Len(plan.missing_slots.items) > 0
    /\ plan.recommended_tools = <<>>

\* C10 as claimed: with a Plan that has slots missing and recommends no
\* tool, no tool is dispatched and used_tools is empty.
C10_NoToolWhileSlotsMissing ==
    SlotsMissingNoTools =>
        /\ executed = <<>>
        /\ pc = "RESPONDED" => result.used_tools = <<>>

Returned_run_agent == pc = "RESPONDED"

\* C11: used_tools is empty or holds exactly one name, execute_tool is called
\* at most once in an invocation, and used_tools is non-empty exactly when a
\* tool was dispatched (it then holds the dispatched name).
C11_AtMostOneTool ==
    /\ Len(executed) <= 1
    /\ Returned_run_agent =>
          /\ Len(result.used_tools) <= 1
          /\ (result.used_tools # <<>>) <=> (executed # <<>>)
          /\ executed # <<>> =>
                /\ result.used_tools = <<executed[1].name>>
                /\ IsText(executed[1].name)

\* C11 witness: the second completion held a tool directive of its own, and
\* run_agent returned after the one dispatch.
C11_SecondDirectiveIgnored ==
    /\ Returned_run_agent
    /\ Len(replies) = 3
    /\ ~replies[3].failed /\ detect_tool_call(replies[3].text).found
    /\ Len(executed) = 1
    /\ result.used_tools = << <<"book_table">> >>

FirstCompletionFailed == Len(replies) >= 2 /\ replies[2].failed

ErrorContent == <<"HF API Error: ", "e">>

\* C12: when the first completion fails, run_agent has returned the error
\* content with the extracted plan and no used tools, hf_chat was called
\* twice in all (the planning call and the failed one: no retry, no second
\* completion), no tool was dispatched, and the failing step left the store
\* as it was.
C12_FirstCompletionFailureIsTerminal ==
    /\ [](FirstCompletionFailed =>
            /\ Returned_run_agent
            /\ result = Response(ErrorContent, plan, <<>>)
            /\ Len(replies) = 2 /\ Len(sent) = 2
            /\ executed = <<>>)
    /\ [][FirstCompletionFailed' => bookings' = bookings /\ plan' = plan]_vars

\* C12 witness: the planning call gave a plan that recommends tools, the
\* first completion failed, and run_agent returned.
C12_FailedAfterPlanWithTools ==
    /\ FirstCompletionFailed
    /\ Returned_run_agent
    /\ Len(plan.recommended_tools) = 2
    /\ result.content = ErrorContent

FirstCompletionPlain ==
    /\ Len(replies) >= 2
    /\ ~replies[2].failed
    /\ ~detect_tool_call(replies[2].text).found

\* C13: when the first completion holds no directive the parser accepts,
\* run_agent has returned its text unchanged as content with no used tools;
\* hf_chat was called twice in all (no second completion), no tool was
\* dispatched, and the step that returns after a first completion that did
\* not fail leaves the store as it was.
C13_PlainCompletionReturnedVerbatim ==
    /\ [](FirstCompletionPlain =>
            /\ Returned_run_agent
            /\ result = Response(replies[2].text, plan, <<>>)
            /\ Len(replies) = 2 /\ Len(sent) = 2
            /\ executed = <<>>)
    /\ [][pc = "PLANNED" /\ pc' = "RESPONDED" /\ ~replies'[2].failed =>
            bookings' = bookings /\ plan' = plan]_vars

\* C13 witness: the completion named a tool after TOOL: but had no ARGS:
\* part, and run_agent returned it as the answer.
C13_MalformedDirectiveReturned ==
    /\ Returned_run_agent
    /\ Len(replies) = 2
    /\ ~replies[2].failed
    /\ Contains(replies[2].text, {"TOOL:"})
    /\ ~Contains(replies[2].text, {"ARGS:"})
    /\ result.content = replies[2].text
    /\ result.used_tools = <<>>

-----------------------------------------------------------------------------
(* Claims about the sanitizer *)

CarriesToolCalls(m) == m.role = "assistant" /\ Len(m.tool_calls) > 0

Answers(call, reply) ==
    /\ reply.role = "tool"
    /\ \E k \in 1 .. Len(call.tool_calls) : call.tool_calls[k] = reply.tool_call_id

\* C6 as claimed: in the sanitized list every assistant message with
\* tool_calls is immediately followed by a tool message whose tool_call_id
\* is the id of that call.
C6_ToolCallAnsweredById ==
    messages # NotRun =>
        \A i \in 1 .. Len(messages) :
            CarriesToolCalls(messages[i]) =>
                i < Len(messages) /\ Answers(messages[i], messages[i + 1])

\* C7: sanitizing the sanitized transcript changes nothing.
C7_SanitizeIdempotent ==
    resanitized # NotRun => resanitized = messages

\* C7 witness: a transcript from which the first pass removed a message, and
\* the second pass has run on what was left, which still holds a tool call.
C7_SecondPassAfterRemoval ==
    /\ resanitized # NotRun
    /\ Len(messages) < Len(transcript)
    /\ \E i \in 1 .. Len(messages) : CarriesToolCalls(messages[i])

\* The positions of t that the contract of the sanitizer keeps.
Dangling(t, i) ==
    CarriesToolCalls(t[i]) /\ ~(i < Len(t) /\ t[i + 1].role = "tool")

Kept(t) == { i \in 1 .. Len(t) : ~Dangling(t, i) }

Rank(t, i) == Cardinality({ k \in Kept(t) : k <= i })

\* C8: the output is the input with exactly the dangling tool-call messages
\* removed: every other message is there, unchanged and in its order.
C8_RemovesExactlyDangling ==
    messages # NotRun =>
        /\ Len(messages) = Cardinality(Kept(transcript))
        /\ \A i \in Kept(transcript) : messages[Rank(transcript, i)] = transcript[i]

\* C8 witness: a transcript with a dangling tool call removed, and an
\* answered tool call and other messages kept.
C8_MixedTranscriptSanitized ==
    /\ messages # NotRun
    /\ \E i \in 1 .. Len(transcript) : Dangling(transcript, i)
    /\ \E i \in 1 .. Len(messages) : CarriesToolCalls(messages[i])
    /\ Len(messages) >= 2

-----------------------------------------------------------------------------
(* Claims about the dispatch step of run_agent *)

FirstCompletionDirective ==
    /\ Len(replies) >= 2
    /\ ~replies[2].failed
    /\ detect_tool_call(replies[2].text).found

ToolCallPair ==
    << Msg("assistant", replies[2].text, <<"call_1">>, ""),
       Msg("tool", <<executed[1].output>>, <<>>, "call_1") >>

DispatchedOnce ==
    /\ pc \in {"TOOL_PENDING", "TOOL_EXECUTED", "RESPONDED"}
    /\ pc # "TOOL_PENDING" =>
          /\ Len(executed) = 1
          /\ executed[1].name = detect_tool_call(replies[2].text).name
          /\ executed[1].args = detect_tool_call(replies[2].text).args
    /\ Len(sent) >= 3 => sent[3] = sent[2] \o ToolCallPair

NoDanglingToolCall(list) ==
    \A i \in 1 .. Len(list) :
        CarriesToolCalls(list[i]) => i < Len(list) /\ Answers(list[i], list[i + 1])

\* C14 as claimed: after a first completion with a directive the parser
\* accepts, the tool is dispatched once, the list sent to the second
\* completion is the list of the first extended by the tool-call message and
\* the tool message of the same id holding the dispatcher's output, and in
\* that list every assistant message with tool_calls is followed by the tool
\* message of its id.
C14_ToolPairAppendedNoDangling ==
    FirstCompletionDirective =>
        /\ DispatchedOnce
        /\ Len(sent) >= 3 => NoDanglingToolCall(sent[3])

SecondCompletionFailed == Len(replies) >= 3 /\ replies[3].failed

TemplatedAnswer(tool_name, output) ==
    <<"Executed tool ">> \o tool_name \o <<". Result: ", output>>

\* C15: when a tool was dispatched and the second completion fails, run_agent
\* returns (no exception, no error content) the templated text that names
\* the tool and holds the dispatcher's output, with the plan and
\* used_tools == [tool name].
C15_SecondFailureGivesTemplate ==
    SecondCompletionFailed =>
        /\ Returned_run_agent
        /\ Len(executed) = 1
        /\ result = Response(TemplatedAnswer(executed[1].name, executed[1].output),
                             plan, <<executed[1].name>>)
        /\ result.content[Len(result.content)] = executed[1].output
        /\ result.content[1] # ErrorContent[1]

\* C15 witness: book_table committed a booking, the second completion
\* failed, and run_agent returned the templated text.
C15_TemplateAfterBooking ==
    /\ SecondCompletionFailed
    /\ Returned_run_agent
    /\ executed[1].name = <<"book_table">>
    /\ Len(executed[1].after) = Len(executed[1].before) + 1
    /\ result.content[1] = "Executed tool "

-----------------------------------------------------------------------------
(* Claims about the plan extractor *)

Planned_run_agent == pc \in {"PLANNED", "TOOL_PENDING", "TOOL_EXECUTED", "RESPONDED"}

PlanningFailed ==
    /\ Len(replies) >= 1
    /\ \/ replies[1].failed
       \/ ~json_loads(ExtractJson(replies[1].text)).ok

\* C16: when the planning call raises, or the text of its reply (the fenced
\* wrapper stripped) does not parse as JSON, _generate_plan returns the
\* default Plan: intent "other", no slots, no recommended tools, reasoning
\* "planner_error"; the model was called once for it.
C16_DefaultPlanOnFailure ==
    PlanningFailed =>
        /\ Planned_run_agent
        /\ plan = [intent |-> "other", slots |-> EmptyDict,
                   recommended_tools |-> <<>>, reasoning |-> "planner_error"]
        /\ sent[1] = planner_msgs(messages)
        /\ pc = "PLANNED" => Len(sent) = 1 /\ Len(replies) = 1

\* C16 witness: the reply held a JSON document after some prose, with no
\* fence around it, and the default Plan was returned.
C16_ProseBeforeJson ==
    /\ pc = "PLANNED"
    /\ ~replies[1].failed
    /\ Len(replies[1].text) = 3
    /\ replies[1].text[3] \in JsonDocs
    /\ plan.reasoning = "planner_error"

\* C17 as claimed: for every reply of the planning call _generate_plan
\* returns, without raising, a Plan that holds a list as recommended_tools.
C17_PlanExtractorNeverRaises ==
    Len(replies) >= 1 =>
        /\ Planned_run_agent
        /\ "recommended_tools" \in DOMAIN plan
        /\ IsText(plan.recommended_tools)

ParsedPlan == json_loads(ExtractJson(replies[1].text)).value

\* The planning reply parsed as an object whose recommended_tools is a list
\* of strings.
ListOfNames ==
    /\ Len(replies) >= 1 /\ ~replies[1].failed
    /\ json_loads(ExtractJson(replies[1].text)).ok
    /\ ParsedPlan.t = "obj"
    /\ "recommended_tools" \in DOMAIN ParsedPlan.o
    /\ ParsedPlan.o.recommended_tools.t = "arr"
    /\ \A i \in 1 .. Len(ParsedPlan.o.recommended_tools.items) :
          ParsedPlan.o.recommended_tools.items[i].t = "str"

RawNames ==
    [i \in 1 .. Len(ParsedPlan.o.recommended_tools.items) |->
        ParsedPlan.o.recommended_tools.items[i].s]

InRegistry(name) == name \in TOOL_REGISTRY

\* C18: when the parsed plan recommends a list of names, the Plan returned
\* recommends exactly the registered ones among them, each as often as in
\* the raw list and in the raw order.
C18_FilterKeepsRegisteredInOrder ==
    ListOfNames =>
        /\ Planned_run_agent
        /\ plan.recommended_tools = SelectSeq(RawNames, InRegistry)

\* C18 witness: the raw list named book_table twice, with two unregistered
\* names and search_restaurants between and after them.
C18_DuplicatesAndUnknownsFiltered ==
    /\ pc = "PLANNED"
    /\ ListOfNames
    /\ Len(RawNames) = 5
    /\ plan.recommended_tools =
          << <<"book_table">>, <<"search_restaurants">>, <<"book_table">> >>

-----------------------------------------------------------------------------
(* Claims about the tool invocation parser *)

FirstIndex(text, token) ==
    CHOOSE i \in 1 .. Len(text) :
        text[i] = token /\ \A j \in 1 .. i - 1 : text[j] # token

\* The text between the first ARGS: and the next one (or the end).
ArgsBody(text) ==
    LET a == FirstIndex(text, "ARGS:")
        later == { j \in a + 1 .. Len(text) : text[j] = "ARGS:" }
        b == IF later = {} THEN Len(text) + 1
             ELSE CHOOSE j \in later : \A k \in later : j <= k
    IN SubSeq(text, a + 1, b - 1)

\* One JSON document, with nothing but white space around it.
OneJsonDocument(body) ==
    /\ Cardinality({ i \in 1 .. Len(body) : body[i] \notin Whitespace }) = 1
    /\ \E i \in 1 .. Len(body) : body[i] \in JsonDocs

WellFormedDirective(text) ==
    /\ \E i \in 1 .. Len(text) : text[i] = "TOOL:"
    /\ \E i \in 1 .. Len(text) : text[i] = "ARGS:"
    /\ OneJsonDocument(ArgsBody(text))

-----------------------------------------------------------------------------
(* Claims about the dispatcher *)

\* The call func(**args) of a registered tool raises: the arguments do not
\* bind to the parameters, or book_table compares the seats with a
\* party_size that is no number.
ToolFunctionRaises(e) ==
    \/ ~Binds(e.name, e.args)
    \/ /\ e.name = <<"book_table">>
       /\ e.args.o.restaurant_id # SENTINEL_ID
       /\ e.args.o.party_size.t # "num"

\* C20: every call of execute_tool returns a payload: for a name that is no
\* key of the registry the Unknown tool payload, the store untouched; for a
\* registered name whose function raises, the payload {error: message}, the
\* store untouched as well.
C20_DispatcherReturnsErrorPayload ==
    \A i \in 1 .. Len(executed) :
        LET e == executed[i]
        IN /\ e.name \notin TOOL_REGISTRY =>
                e.output = UnknownTool /\ e.after = e.before
           /\ (e.name \in TOOL_REGISTRY /\ ToolFunctionRaises(e)) =>
                e.output = [error |-> "TypeError"] /\ e.after = e.before

\* C20 witness: book_table was called with the party size as a word, and
\* run_agent went on to return with the error payload as tool output.
C20_TypeErrorBecomesPayload ==
    /\ Returned_run_agent
    /\ Len(executed) = 1
    /\ executed[1].name = <<"book_table">>
    /\ Binds(executed[1].name, executed[1].args)
    /\ executed[1].args.o.party_size = Str(<<"four">>)
    /\ tool_output = [error |-> "TypeError"]

-----------------------------------------------------------------------------
(* Claims about the availability engine *)

SentinelCall == last.made /\ last.args.restaurant_id = SENTINEL_ID

\* C21: a book_table call for the sentinel id 999999 returns success=true
\* whatever the party size, the name and the time string are, and leaves the
\* bookings table as it was.
C21_SentinelAlwaysSucceeds ==
    SentinelCall =>
        /\ ~last.out.raised
        /\ last.out.payload.success = TRUE
        /\ last.out.payload.restaurant_id = SENTINEL_ID
        /\ bookings = last.before

\* C21 witness: the sentinel was booked with a party size that is no number
\* at a time that does not parse, on a store that already holds a row.
C21_SentinelWithWordAsSize ==
    /\ SentinelCall
    /\ last.args.party_size = Str(<<"four">>)
    /\ last.args.time = Raw("8pm")
    /\ Len(last.before) > 0
    /\ last.out.payload.success = TRUE

\* A call for a restaurant of the store with a number as party size.
RealRequest ==
    /\ last.made
    /\ last.args.restaurant_id \in DOMAIN restaurants
    /\ last.args.party_size.t = "num"

\* Two time strings of one bucket: ISO strings of the same minute and offset,
\* whatever their seconds fields; any other string only with itself.
SameBucket(t1, t2) ==
    IF t1.fmt = "iso" /\ t2.fmt = "iso"
    THEN t1.hhmm = t2.hhmm /\ t1.off = t2.off
    ELSE t1 = t2

RECURSIVE BucketTotal(_, _, _)
BucketTotal(rows, restaurant_id, time) ==
    IF rows = <<>> THEN 0
    ELSE LET r == Head(rows)
         IN (IF r.restaurant_id = restaurant_id /\ SameBucket(r.time, time)
             THEN r.party_size ELSE 0)
            + BucketTotal(Tail(rows), restaurant_id, time)

SeatsLeftInBucket ==
    Max(restaurants[last.args.restaurant_id]
          - BucketTotal(last.before, last.args.restaurant_id, last.args.time), 0)

\* C22: a request is admitted exactly when its party fits in the seats left
\* in the bucket of its time string, a bucket that ISO strings differing
\* only in the seconds field share; the row inserted carries the time at
\* minute resolution, and a string that does not parse is used as given and
\* admitted on the same condition.
C22_SecondsShareBucket ==
    RealRequest =>
        /\ Succeeded(last.out) <=> last.args.party_size.v <= SeatsLeftInBucket
        /\ Succeeded(last.out) =>
              /\ Len(bookings) = Len(last.before) + 1
              /\ SubSeq(bookings, 1, Len(last.before)) = last.before
              /\ SameBucket(bookings[Len(bookings)].time, last.args.time)
              /\ bookings[Len(bookings)].time.sec = ""
              /\ last.args.time.fmt = "raw" =>
                    bookings[Len(bookings)].time = last.args.time

\* C22 witness: a request at 19:30:00 was turned away because of the seats
\* booked at 19:30.
C22_SecondsRequestMeetsMinuteRows ==
    /\ RealRequest
    /\ last.args.time = Iso(1930, ":00", "")
    /\ last.args.party_size.v = 1
    /\ ~Succeeded(last.out)
    /\ \A i \in 1 .. Len(last.before) : last.before[i].time = Iso(1930, "", "")
    /\ Len(last.before) >= 2

SeatsAt(rows, restaurant_id, time) ==
    _availability_snapshot(restaurants, rows, restaurant_id, time).available_seats

\* A successful booking of k <= C seats at a time with no bookings before.
FirstBookingAt(time) ==
    /\ RealRequest
    /\ Succeeded(last.out)
    /\ last.args.party_size.v <= restaurants[last.args.restaurant_id]
    /\ \A i \in 1 .. Len(last.before) :
          ~(last.before[i].restaurant_id = last.args.restaurant_id
            /\ last.before[i].time = time)

\* C23 as claimed: with no bookings at T, the string passed to book_table,
\* the snapshot at T is C before the call; after the call one row is added
\* and the snapshot at T is C - k.
C23_SnapshotAtRequestedString ==
    FirstBookingAt(last.args.time) =>
        /\ SeatsAt(last.before, last.args.restaurant_id, last.args.time)
              = restaurants[last.args.restaurant_id]
        /\ Len(bookings) = Len(last.before) + 1
        /\ SeatsAt(bookings, last.args.restaurant_id, last.args.time)
              = restaurants[last.args.restaurant_id] - last.args.party_size.v

\* C23 amended: the same with T taken at minute resolution, the string
\* book_table stores.
C23_SnapshotAtMinute ==
    FirstBookingAt(NormalizeTime(last.args.time)) =>
        /\ SeatsAt(last.before, last.args.restaurant_id, NormalizeTime(last.args.time))
              = restaurants[last.args.restaurant_id]
        /\ Len(bookings) = Len(last.before) + 1
        /\ SubSeq(bookings, 1, Len(last.before)) = last.before
        /\ SeatsAt(bookings, last.args.restaurant_id, NormalizeTime(last.args.time))
              = restaurants[last.args.restaurant_id] - last.args.party_size.v

\* C23 witness: the whole capacity was booked at 19:30:00 in one call, on a
\* store that held a booking of the restaurant at another time.
C23_WholeCapacityBooked ==
    /\ FirstBookingAt(NormalizeTime(last.args.time))
    /\ last.args.time = Iso(1930, ":00", "")
    /\ last.args.party_size.v = restaurants[last.args.restaurant_id]
    /\ Len(last.before) = 1
    /\ last.before[1].restaurant_id = last.args.restaurant_id
    /\ SeatsAt(bookings, last.args.restaurant_id, Iso(1930, "", "")) = 0

-----------------------------------------------------------------------------
(* Claims about the calls run_agent makes *)

C25_CallerTranscriptUntouched ==
    [][transcript' = transcript]_vars

\* C25 witness: the sanitizer dropped a message of the transcript from the
\* local list, a tool was dispatched and its two messages appended, and
\* run_agent returned with the caller's three messages in place.
C25_LocalListDiffersFromCallers ==
    /\ Returned_run_agent
    /\ Len(executed) = 1
    /\ transcript = <<OldToolCall, UserAsks, SystemLanguage>>
    /\ messages = <<UserAsks, SystemLanguage>>
    /\ Len(orchestrator_messages) = Len(messages) + 4

BookingCommitted ==
    /\ Len(executed) = 1
    /\ executed[1].name = <<"book_table">>
    /\ Len(executed[1].after) = Len(executed[1].before) + 1

\* C26: when a book_table dispatch committed a booking and the second
\* completion then fails, the row is still in the store and run_agent
\* returns used_tools == ["book_table"].
C26_CommitSurvivesLaterFailure ==
    (BookingCommitted /\ SecondCompletionFailed) =>
        /\ bookings = executed[1].after
        /\ bookings[Len(bookings)].customer_name = "Asha"
        /\ Returned_run_agent
        /\ result.used_tools = << <<"book_table">> >>

\* C26 witness: the store was empty, the dispatch booked a table, the second
\* completion failed, and the store holds the one row.
C26_RowKeptAfterFailure ==
    /\ BookingCommitted
    /\ SecondCompletionFailed
    /\ executed[1].before = <<>>
    /\ Len(bookings) = 1
    /\ bookings[1].party_size = 2

-----------------------------------------------------------------------------
(* Claims about the order of the steps of run_agent *)

\* The steps the orchestration loop may take, by the state they leave and
\* the state they enter.
OrderedStep ==
    \/ pc = "COLLECTING_SLOTS" /\ pc' = "PLANNED"
    \/ pc = "PLANNED" /\ pc' \in {"TOOL_PENDING", "RESPONDED"}
    \/ pc = "TOOL_PENDING" /\ pc' = "TOOL_EXECUTED"
    \/ pc = "TOOL_EXECUTED" /\ pc' = "RESPONDED"

\* What has happened by each state: a dispatch only after the plan and a
\* first completion that returned, a second completion only after a
\* dispatch, and every call of the model made once.
StepsInOrder ==
    /\ Len(sent) = Len(replies)
    /\ pc = "COLLECTING_SLOTS" => sent = <<>> /\ executed = <<>>
    /\ pc = "PLANNED" => Len(sent) = 1 /\ executed = <<>>
    /\ pc = "TOOL_PENDING" => Len(sent) = 2 /\ ~replies[2].failed /\ executed = <<>>
    /\ pc = "TOOL_EXECUTED" => Len(sent) = 2 /\ Len(executed) = 1
    /\ executed # <<>> => Len(sent) >= 2 /\ ~replies[2].failed /\ plan # None
    /\ Len(sent) = 3 => Len(executed) = 1
    /\ Len(sent) <= 3

\* C27 as claimed: an invocation starts in COLLECTING_SLOTS, takes its steps
\* in the order plan, first completion, dispatch, second completion, with no
\* call made twice, and reaches a terminal response.
C27_OrderedStepsReachResponse ==
    /\ pc = "COLLECTING_SLOTS"
    /\ [][OrderedStep]_vars
    /\ []StepsInOrder
    /\ <>(pc = "RESPONDED")

-----------------------------------------------------------------------------
(* Claims about slots *)

BookedSlot == <<last.args.restaurant_id, bookings[Len(bookings)].time>>

\* C28: a successful book_table leaves the seats available at every other
\* (restaurant, time string) as they were, times one minute away or written
\* with an offset included, and no call changes a capacity.
C28_OtherSlotsUnchanged ==
    /\ []((RealRequest /\ Succeeded(last.out)) =>
            \A r \in DOMAIN restaurants : \A t \in SlotTimes :
                <<r, t>> # BookedSlot =>
                    SeatsAt(bookings, r, t) = SeatsAt(last.before, r, t))
    /\ [][restaurants' = restaurants]_vars

\* C28 witness: 19:30 was booked out at restaurant 1 while 19:31 and
\* 19:30+00:00 of the same restaurant held one booking each, and each of the
\* two still has its one seat left.
C28_NeighbourSlotsKeepSeats ==
    /\ RealRequest /\ Succeeded(last.out)
    /\ BookedSlot = <<1, Iso(1930, "", "")>>
    /\ last.args.party_size.v = 2
    /\ SeatsAt(bookings, 1, Iso(1930, "", "")) = 0
    /\ SeatsAt(last.before, 1, Iso(1931, "", "")) = 1
    /\ SeatsAt(bookings, 1, Iso(1931, "", "")) = 1
    /\ SeatsAt(last.before, 1, Iso(1930, "", "+00:00")) = 1
    /\ SeatsAt(bookings, 1, Iso(1930, "", "+00:00")) = 1

\* A search was made with the time argument of the book_table call that
\* followed it, with no write in between.
SearchedThenBooked ==
    /\ last.made
    /\ tool_output # None
    /\ tool_output.rows = last.before
    /\ tool_output.time = last.args.time

ReportedSeats ==
    LET i == CHOOSE j \in 1 .. Len(tool_output.reported) :
                 tool_output.reported[j].id = last.args.restaurant_id
    IN tool_output.reported[i].available_seats

\* C29 as claimed: the book_table call succeeds when the search reported at
\* least party_size seats for the restaurant, and is denied when it
\* reported fewer.
C29_SearchAgreesWithBooking ==
    SearchedThenBooked =>
        (Succeeded(last.out) <=> ReportedSeats >= last.args.party_size.v)

\* C30 as claimed: whatever book_table calls were made, the snapshot of every
\* restaurant of the store at every time reports available_seats <= capacity.
C30_AvailableNeverAboveCapacity ==
    \A restaurant_id \in DOMAIN restaurants :
        \A time \in TimeArgs :
            SeatsAt(bookings, restaurant_id, time) <= restaurants[restaurant_id]

-----------------------------------------------------------------------------
(* Claims about the reported tools and the parsed call *)

\* C31 as claimed: every name run_agent reports in used_tools is a key of
\* TOOL_REGISTRY.
C31_UsedToolsAreRegistered ==
    Returned_run_agent =>
        \A i \in 1 .. Len(result.used_tools) :
            result.used_tools[i] \in TOOL_REGISTRY

\* C32 as claimed: when detect_tool_call returns a call, its args is a JSON
\* object.
C32_ParsedArgsAreObject ==
    (pc = "parsed" /\ tool_call.found) => tool_call.args.t = "obj"

=============================================================================
